---- MODULE Spec2Model ----
(***************************************************************************)
(* firebuild: the completion client (callGptApi), the tool dispatch        *)
(* (handleFunctionCall, GPT_FUNCTIONS) and the agent loop                  *)
(* (handleUserRequest, main) of the two drivers, as one state machine.     *)
(*                                                                         *)
(* Texts (JavaScript strings) are sequences of one-character strings, so   *)
(* that the sanitizer, JSON parsing, path joining, trimming and the        *)
(* comparisons with the sentinel texts are computed character by           *)
(* character, as the code computes them.                                   *)
(***************************************************************************)
EXTENDS Naturals, Sequences, FiniteSets, TLC

VARIABLES
  variant,      \* which driver runs: "firebuild" or "cli"
  codePath,     \* context.codePath, the text the user typed at start-up
  mainPc,       \* "ask" | "loop" | "api" | "crashed"
  cycle,        \* number of request cycles started by main
  messages,     \* the history of the current request cycle
  fs,           \* the files on disk: absolute path -> content
  lastExec,     \* what the latest handleFunctionCall executed
  fault,        \* the error that ended the process ("none" while alive)
  triesLeft,    \* callGptApi: triesLeft
  attempts,     \* callGptApi: fetch calls made in the current call
  sleeps,       \* callGptApi: the asyncSleep waits of the current call, in ms
  lastStatus,   \* callGptApi: status of the latest attempt (0: fetch rejected)
  lastBodyRead, \* callGptApi: the body of the latest response was read
  apiBody,      \* callGptApi: body text of the 2xx response
  apiResult,    \* callGptApi: "none" | "success" | "failure" | "raised", and the entry
  utilPc,       \* parseGptJson: "idle" | "called" | "preprocessed" | "returned"
  gptJson,      \* parseGptJson: its argument jsonString
  preprocessedString,  \* parseGptJson: what preprocessGptJson returned
  parsedJson    \* parseGptJson: [ok, val], what it returned or that it threw

vars == <<variant, codePath, mainPc, cycle, messages, fs, lastExec, fault,
          triesLeft, attempts, sleeps, lastStatus, lastBodyRead, apiBody, apiResult,
          utilPc, gptJson, preprocessedString, parsedJson>>

----------------------------------------------------------------------------
(* Characters and texts *)

NL == "\n"
CR == "\r"
TAB == "\t"
BS == "\\"
QUOTE == "\""
SLASH == "/"

Whitespace == {" ", NL, CR, TAB}

Digits == {"0", "1", "2", "3", "4", "5", "6", "7", "8", "9"}

StartsWith(s, prefix) ==
  /\ Len(prefix) <= Len(s)
  /\ \A i \in 1..Len(prefix) : s[i] = prefix[i]

\* s.trim(): from the first to the last character that is not whitespace
Trim(s) ==
  LET inked == {i \in 1..Len(s) : s[i] \notin Whitespace}
  IN  IF inked = {} THEN <<>>
      ELSE SubSeq(s, CHOOSE i \in inked : \A j \in inked : i <= j,
                     CHOOSE i \in inked : \A j \in inked : i >= j)

LowerChar(c) ==
  CASE c = "Y" -> "y"
    [] c = "N" -> "n"
    [] c = "E" -> "e"
    [] c = "S" -> "s"
    [] c = "O" -> "o"
    [] OTHER -> c

ToLowerCase(s) == [i \in 1..Len(s) |-> LowerChar(s[i])]

(* The sentinel texts *)

END_CONVERSATION ==
  <<"<","e","n","d","_","c","o","n","v","e","r","s","a","t","i","o","n",">">>

ERROR_PARSING_ARGUMENTS ==
  <<"<","e","r","r","o","r"," ","p","a","r","s","i","n","g"," ","a","r","g","u","m","e","n","t","s",">">>

FILE_DOES_NOT_EXIST ==
  <<"<","f","i","l","e"," ","d","o","e","s"," ","n","o","t"," ","e","x","i","s","t",">">>

DONE ==
  <<"<","d","o","n","e",">">>

USER_CANCELED ==
  <<"<","u","s","e","r"," ","c","a","n","c","e","l","e","d"," ","r","e","q","u","e","s","t",">">>

----------------------------------------------------------------------------
(* JSON.parse, on the grammar the texts of this model use: objects, arrays, *)
(* strings with the escapes \" \\ \/ \n \r \t, unsigned integers, true,     *)
(* false and null, with whitespace between tokens.  A raw control           *)
(* character inside a string is a syntax error, as in JSON.                 *)
(* A value is [t, s, kids]: t its type, s the characters of a string,       *)
(* number or literal, kids the elements of an array or the members          *)
(* [k, v] of an object, in the order of the text.                           *)

JStr(chars) == [t |-> "string", s |-> chars, kids |-> <<>>]

JNum(chars) == [t |-> "number", s |-> chars, kids |-> <<>>]

JLit(type, chars) == [t |-> type, s |-> chars, kids |-> <<>>]

JArr(elems) == [t |-> "array", s |-> <<>>, kids |-> elems]

JObj(members) == [t |-> "object", s |-> <<>>, kids |-> members]

JUndefined == [t |-> "undefined", s |-> <<>>, kids |-> <<>>]

SyntaxError == [ok |-> FALSE, val |-> JUndefined, pos |-> 0]

Parsed(v, p) == [ok |-> TRUE, val |-> v, pos |-> p]

\* the first index from i on that holds no whitespace (Len(s) + 1: none)
SkipWs(s, i) ==
  CHOOSE j \in i..(Len(s) + 1) :
    /\ j = Len(s) + 1 \/ s[j] \notin Whitespace
    /\ \A k \in i..(j - 1) : s[k] \in Whitespace

\* the number of backslashes in a row just before index j
BackslashRun(s, j) ==
  CHOOSE k \in 0..(j - 1) :
    /\ \A m \in 1..k : s[j - m] = BS
    /\ k = j - 1 \/ s[j - k - 1] # BS

\* inside a string: the character at j is the second one of an escape
Escaped(s, j) == BackslashRun(s, j) % 2 = 1

Unescape(c) ==
  CASE c = "n" -> NL
    [] c = "r" -> CR
    [] c = "t" -> TAB
    [] OTHER -> c

\* the characters a string's text from..to stands for
RECURSIVE Decode(_, _, _)
Decode(s, from, to) ==
  IF from > to THEN <<>>
  ELSE IF from = to
    THEN IF Escaped(s, from) THEN <<Unescape(s[from])>>
         ELSE IF s[from] = BS THEN <<>>
         ELSE <<s[from]>>
  ELSE Decode(s, from, (from + to) \div 2) \o Decode(s, (from + to) \div 2 + 1, to)

\* s[i] is the first character after the opening quote: the string ends at
\* the first quote that is not escaped
ParseStringBody(s, i) ==
  LET closing == {j \in i..Len(s) : s[j] = QUOTE /\ ~Escaped(s, j)}
      end == CHOOSE j \in closing : \A k \in closing : j <= k
  IN  IF closing = {} THEN SyntaxError
      ELSE IF \E p \in i..(end - 1) :
                \/ s[p] \in {NL, CR, TAB}
                \/ /\ Escaped(s, p)
                   /\ s[p] \notin {QUOTE, BS, SLASH, "n", "r", "t"}
      THEN SyntaxError
      ELSE Parsed(JStr(Decode(s, i, end - 1)), end + 1)

\* the first index from i on that holds no digit
DigitsEnd(s, i) ==
  CHOOSE j \in i..(Len(s) + 1) :
    /\ j = Len(s) + 1 \/ s[j] \notin Digits
    /\ \A k \in i..(j - 1) : s[k] \in Digits

ParseNumber(s, i) ==
  LET e == DigitsEnd(s, i)
  IN  IF s[i] = "0" /\ e > i + 1
      THEN SyntaxError
      ELSE Parsed(JNum(SubSeq(s, i, e - 1)), e)

ParseLiteral(s, i, type, word) ==
  IF i + Len(word) - 1 <= Len(s) /\ SubSeq(s, i, i + Len(word) - 1) = word
  THEN Parsed(JLit(type, word), i + Len(word))
  ELSE SyntaxError

RECURSIVE ParseValue(_, _)
RECURSIVE ParseMembers(_, _, _)
RECURSIVE ParseElements(_, _, _)

\* after "{" or ",": a member "key": value, then "," or "}"
ParseMembers(s, i, acc) ==
  LET j == SkipWs(s, i)
  IN  IF j > Len(s) \/ s[j] # QUOTE THEN SyntaxError
      ELSE LET key == ParseStringBody(s, j + 1)
           IN  IF ~key.ok THEN SyntaxError
               ELSE LET c == SkipWs(s, key.pos)
                    IN  IF c > Len(s) \/ s[c] # ":" THEN SyntaxError
                        ELSE LET v == ParseValue(s, c + 1)
                             IN  IF ~v.ok THEN SyntaxError
                                 ELSE LET e == SkipWs(s, v.pos)
                                          all == Append(acc, [k |-> key.val.s, v |-> v.val])
                                      IN  IF e > Len(s) THEN SyntaxError
                                          ELSE IF s[e] = "," THEN ParseMembers(s, e + 1, all)
                                          ELSE IF s[e] = "}" THEN Parsed(JObj(all), e + 1)
                                          ELSE SyntaxError

\* after "[" or ",": a value, then "," or "]"
ParseElements(s, i, acc) ==
  LET v == ParseValue(s, i)
  IN  IF ~v.ok THEN SyntaxError
      ELSE LET e == SkipWs(s, v.pos)
               all == Append(acc, v.val)
           IN  IF e > Len(s) THEN SyntaxError
               ELSE IF s[e] = "," THEN ParseElements(s, e + 1, all)
               ELSE IF s[e] = "]" THEN Parsed(JArr(all), e + 1)
               ELSE SyntaxError

ParseValue(s, i) ==
  LET j == SkipWs(s, i)
  IN  IF j > Len(s) THEN SyntaxError
      ELSE IF s[j] = "{"
        THEN LET m == SkipWs(s, j + 1)
             IN  IF m <= Len(s) /\ s[m] = "}"
                 THEN Parsed(JObj(<<>>), m + 1)
                 ELSE ParseMembers(s, j + 1, <<>>)
      ELSE IF s[j] = "["
        THEN LET m == SkipWs(s, j + 1)
             IN  IF m <= Len(s) /\ s[m] = "]"
                 THEN Parsed(JArr(<<>>), m + 1)
                 ELSE ParseElements(s, j + 1, <<>>)
      ELSE IF s[j] = QUOTE THEN ParseStringBody(s, j + 1)
      ELSE IF s[j] \in Digits THEN ParseNumber(s, j)
      ELSE IF s[j] = "t" THEN ParseLiteral(s, j, "boolean", <<"t", "r", "u", "e">>)
      ELSE IF s[j] = "f" THEN ParseLiteral(s, j, "boolean", <<"f", "a", "l", "s", "e">>)
      ELSE IF s[j] = "n" THEN ParseLiteral(s, j, "null", <<"n", "u", "l", "l">>)
      ELSE SyntaxError

\* JSON.parse(text): [ok, val]; ok = FALSE stands for the SyntaxError it throws
JsonParse(s) ==
  LET r == ParseValue(s, 1)
  IN  IF r.ok /\ SkipWs(s, r.pos) > Len(s)
      THEN [ok |-> TRUE, val |-> r.val]
      ELSE [ok |-> FALSE, val |-> JUndefined]

\* obj[key] of a parsed object: the last member of that name, or undefined
RECURSIVE Member(_, _, _)
Member(members, key, i) ==
  IF i = 0 THEN JUndefined
  ELSE IF members[i].k = key THEN members[i].v
  ELSE Member(members, key, i - 1)

Get(obj, key) == Member(obj.kids, key, Len(obj.kids))

IsObject(v) == v.t = "object"

IsString(v) == v.t = "string"

----------------------------------------------------------------------------
(* util.ts: the JSON sanitizer and parseGptJson *)

\* one pass of the loop body, on the character char, from the state st of
\* the loop's variables
PreprocessChar(char, st) ==
  LET insideString == IF char = QUOTE /\ ~st.wasBackslash
                      THEN ~st.insideString
                      ELSE st.insideString
  IN  [insideString |-> insideString,
       result |-> IF insideString /\ (char = NL \/ char = CR)
                  THEN st.result \o <<BS, "n">>
                  ELSE Append(st.result, char),
       wasBackslash |-> char = BS]

\* the passes for the characters from..to in order, the range halved at each
\* level; the first half is computed before the second half starts
RECURSIVE PreprocessRange(_, _, _, _)
PreprocessRange(jsonString, from, to, st) ==
  IF from > to THEN st
  ELSE IF from = to THEN PreprocessChar(jsonString[from], st)
  ELSE LET firstHalf == PreprocessRange(jsonString, from, (from + to) \div 2, st)
       IN  IF firstHalf.wasBackslash \in BOOLEAN
           THEN PreprocessRange(jsonString, (from + to) \div 2 + 1, to, firstHalf)
           ELSE firstHalf

preprocessGptJson(jsonString) ==
  PreprocessRange(jsonString, 1, Len(jsonString),
    [insideString |-> FALSE, result |-> <<>>, wasBackslash |-> FALSE]).result

\* parsedJsonSchema: string, number, boolean, null, array of such, record of such
RECURSIVE parsedJsonSchema(_)
parsedJsonSchema(v) ==
  \/ v.t \in {"string", "number", "boolean", "null"}
  \/ /\ v.t = "array"
     /\ \A i \in 1..Len(v.kids) : parsedJsonSchema(v.kids[i])
  \/ /\ v.t = "object"
     /\ \A i \in 1..Len(v.kids) : parsedJsonSchema(v.kids[i].v)

\* [ok, val]; ok = FALSE stands for the error JSON.parse or the schema throws
parseGptJson(jsonString) ==
  LET r == JsonParse(preprocessGptJson(jsonString))
  IN  IF r.ok /\ parsedJsonSchema(r.val)
      THEN r
      ELSE [ok |-> FALSE, val |-> JUndefined]

----------------------------------------------------------------------------
(* Node's path.join and path.dirname (posix), and util.ts: safePathJoin *)

DOT == <<".">>

DOTDOT == <<".", ".">>

\* path.split("/")
RECURSIVE SplitFrom(_, _, _, _)
SplitFrom(s, i, cur, acc) ==
  IF i > Len(s) THEN Append(acc, cur)
  ELSE IF s[i] = SLASH THEN SplitFrom(s, i + 1, <<>>, Append(acc, cur))
  ELSE SplitFrom(s, i + 1, Append(cur, s[i]), acc)

Split(s) == SplitFrom(s, 1, <<>>, <<>>)

\* parts.join("/")
RECURSIVE JoinFrom(_, _)
JoinFrom(parts, i) ==
  IF i > Len(parts) THEN <<>>
  ELSE IF i = Len(parts) THEN parts[i]
  ELSE parts[i] \o <<SLASH>> \o JoinFrom(parts, i + 1)

Join(parts) == JoinFrom(parts, 1)

\* normalizeString: "." and empty segments are dropped, ".." removes the
\* segment before it, or is kept when there is none and the path is relative
RECURSIVE NormalizeSegments(_, _, _, _)
NormalizeSegments(segs, i, allowAboveRoot, res) ==
  IF i > Len(segs) THEN res
  ELSE IF segs[i] = <<>> \/ segs[i] = DOT
    THEN NormalizeSegments(segs, i + 1, allowAboveRoot, res)
  ELSE IF segs[i] = DOTDOT
    THEN IF res # <<>> /\ res[Len(res)] # DOTDOT
         THEN NormalizeSegments(segs, i + 1, allowAboveRoot, SubSeq(res, 1, Len(res) - 1))
         ELSE IF allowAboveRoot
         THEN NormalizeSegments(segs, i + 1, allowAboveRoot, Append(res, DOTDOT))
         ELSE NormalizeSegments(segs, i + 1, allowAboveRoot, res)
  ELSE NormalizeSegments(segs, i + 1, allowAboveRoot, Append(res, segs[i]))

Normalize(path) ==
  IF path = <<>> THEN DOT
  ELSE LET isAbsolute == path[1] = SLASH
           trailingSeparator == path[Len(path)] = SLASH
           p == Join(NormalizeSegments(Split(path), 1, ~isAbsolute, <<>>))
       IN  IF p = <<>>
           THEN IF isAbsolute THEN <<SLASH>>
                ELSE IF trailingSeparator THEN <<".", SLASH>> ELSE DOT
           ELSE (IF isAbsolute THEN <<SLASH>> ELSE <<>>) \o p
                \o (IF trailingSeparator THEN <<SLASH>> ELSE <<>>)

PathJoin(a, b) ==
  IF a = <<>> /\ b = <<>> THEN DOT
  ELSE IF a = <<>> THEN Normalize(b)
  ELSE IF b = <<>> THEN Normalize(a)
  ELSE Normalize(a \o <<SLASH>> \o b)

\* the index of the slash that ends the directory part, 0 when there is none
RECURSIVE DirnameEnd(_, _, _)
DirnameEnd(path, i, matchedSlash) ==
  IF i < 2 THEN 0
  ELSE IF path[i] = SLASH
    THEN IF ~matchedSlash THEN i ELSE DirnameEnd(path, i - 1, matchedSlash)
  ELSE DirnameEnd(path, i - 1, FALSE)

Dirname(path) ==
  IF path = <<>> THEN DOT
  ELSE LET end == DirnameEnd(path, Len(path), TRUE)
       IN  IF end = 0
           THEN IF path[1] = SLASH THEN <<SLASH>> ELSE DOT
           ELSE SubSeq(path, 1, end - 1)

\* [ok, path]; ok = FALSE stands for the "Upward traversal" error it throws
safePathJoin(base, target) ==
  LET targetPath == PathJoin(base, target)
  IN  IF ~StartsWith(targetPath, base)
      THEN [ok |-> FALSE, path |-> <<>>]
      ELSE [ok |-> TRUE, path |-> targetPath]

----------------------------------------------------------------------------
(* The disk.  files maps an absolute path to [dir, content]: a directory or *)
(* a file with its content.                                                 *)

File(content) == [dir |-> FALSE, content |-> content]

Directory == [dir |-> TRUE, content |-> <<>>]

pathAccessible(files, path) == path \in DOMAIN files

pathIsFile(files, path) == path \in DOMAIN files /\ ~files[path].dir

pathIsDir(files, path) == path \in DOMAIN files /\ files[path].dir

\* mkdirP from part i on: [ok, files]; ok = FALSE stands for the error
\* "already exists and is not a directory", thrown after the directories
\* before it were made
RECURSIVE MkdirFrom(_, _, _)
MkdirFrom(files, pathParts, i) ==
  IF i > Len(pathParts) THEN [ok |-> TRUE, files |-> files]
  ELSE LET partialPath == Join(SubSeq(pathParts, 1, i))
       IN  IF partialPath = <<>> THEN MkdirFrom(files, pathParts, i + 1)
           ELSE IF pathIsDir(files, partialPath) THEN MkdirFrom(files, pathParts, i + 1)
           ELSE IF pathAccessible(files, partialPath) THEN [ok |-> FALSE, files |-> files]
           ELSE MkdirFrom((partialPath :> Directory) @@ files, pathParts, i + 1)

mkdirP(files, path) == MkdirFrom(files, Split(path), 1)

\* fsPromises.writeFile: fails on a directory and on a missing parent
WriteFile(files, filePath, content) ==
  IF \/ pathIsDir(files, filePath)
     \/ filePath[Len(filePath)] = SLASH
     \/ ~pathIsDir(files, Dirname(filePath))
  THEN [ok |-> FALSE, files |-> files]
  ELSE [ok |-> TRUE, files |-> (filePath :> File(content)) @@ files]

\* fsPromises.rm of a file
RemoveFile(files, filePath) ==
  [p \in DOMAIN files \ {filePath} |-> files[p]]

----------------------------------------------------------------------------
(* The words of the wire format and of the tool registry, as texts *)

T_choices ==
  <<"c","h","o","i","c","e","s">>

T_finish_reason ==
  <<"f","i","n","i","s","h","_","r","e","a","s","o","n">>

T_message ==
  <<"m","e","s","s","a","g","e">>

T_role ==
  <<"r","o","l","e">>

T_content ==
  <<"c","o","n","t","e","n","t">>

T_function_call ==
  <<"f","u","n","c","t","i","o","n","_","c","a","l","l">>

T_name ==
  <<"n","a","m","e">>

T_arguments ==
  <<"a","r","g","u","m","e","n","t","s">>

T_assistant ==
  <<"a","s","s","i","s","t","a","n","t">>

T_length ==
  <<"l","e","n","g","t","h">>

T_stop ==
  <<"s","t","o","p">>

T_path ==
  <<"p","a","t","h">>

T_summary ==
  <<"s","u","m","m","a","r","y">>

T_command ==
  <<"c","o","m","m","a","n","d">>

T_method ==
  <<"m","e","t","h","o","d">>

T_url ==
  <<"u","r","l">>

T_headers ==
  <<"h","e","a","d","e","r","s">>

T_list_files ==
  <<"l","i","s","t","_","f","i","l","e","s">>

T_read_file ==
  <<"r","e","a","d","_","f","i","l","e">>

T_write_file ==
  <<"w","r","i","t","e","_","f","i","l","e">>

T_run ==
  <<"r","u","n">>

T_make_http_request ==
  <<"m","a","k","e","_","h","t","t","p","_","r","e","q","u","e","s","t">>

T_complete_request ==
  <<"c","o","m","p","l","e","t","e","_","r","e","q","u","e","s","t">>

HttpMethods ==
  { <<"G", "E", "T">>, <<"P", "O", "S", "T">>, <<"P", "U", "T">>,
    <<"P", "A", "T", "C", "H">>, <<"D", "E", "L", "E", "T", "E">> }

----------------------------------------------------------------------------
(* GPT_FUNCTIONS: the registry of each driver, the parametersSchema of each *)
(* tool and its execute function                                            *)

\* the names of GPT_FUNCTIONS; cli.ts has no make_http_request
Registry(v) ==
  IF v = "firebuild"
  THEN {T_list_files, T_read_file, T_write_file, T_run, T_make_http_request,
        T_complete_request}
  ELSE {T_list_files, T_read_file, T_write_file, T_run, T_complete_request}

\* z.record(z.string()).optional()
OptionalStringRecord(v) ==
  \/ v.t = "undefined"
  \/ /\ v.t = "object"
     /\ \A i \in 1..Len(v.kids) : IsString(v.kids[i].v)

\* fn.parametersSchema.parse(rawParsedJson) succeeds; a z.object ignores the
\* keys it does not declare
parametersSchema(name, v) ==
  /\ IsObject(v)
  /\ CASE name = T_list_files -> TRUE
       [] name = T_read_file -> IsString(Get(v, T_path))
       [] name = T_write_file ->
            IsString(Get(v, T_path)) /\ IsString(Get(v, T_content))
       [] name = T_run -> IsString(Get(v, T_command))
       [] name = T_make_http_request ->
            /\ IsString(Get(v, T_method))
            /\ Get(v, T_method).s \in HttpMethods
            /\ IsString(Get(v, T_url))
            /\ OptionalStringRecord(Get(v, T_headers))
       [] name = T_complete_request -> IsString(Get(v, T_summary))
       [] OTHER -> FALSE

\* what an execute function did besides computing its result
\* (path: the path it handed to the file system)
NoExec ==
  [tool |-> <<>>, fsTouched |-> FALSE, path |-> <<>>, shellRan |-> FALSE,
   httpSent |-> FALSE, answer |-> <<>>]

Exec(name) == [NoExec EXCEPT !.tool = name]

\* the outcome of an execute function or of handleFunctionCall: the text it
\* returns, or the error it throws, with the disk it leaves
Returned(res, files, exec) ==
  [raised |-> "none", res |-> res, files |-> files, exec |-> exec]

Raised(error, files, exec) ==
  [raised |-> error, res |-> <<>>, files |-> files, exec |-> exec]

\* execPromise(...): env.shell is what the child process does: kind "ok",
\* kind "failed" (an exit code, stdout and stderr) or kind "error" (no exit
\* code: the command could not be started)
list_files(context, files, env) ==
  IF env.shell.kind = "ok"
  THEN Returned(Trim(env.shell.stdout), files,
                [Exec(T_list_files) EXCEPT !.shellRan = TRUE])
  ELSE Raised("exec", files, [Exec(T_list_files) EXCEPT !.shellRan = TRUE])

read_file(context, files, path) ==
  LET filePath == safePathJoin(context, path)
  IN  IF ~filePath.ok
      THEN Raised("upwardTraversal", files, Exec(T_read_file))
      ELSE IF ~pathIsFile(files, filePath.path)
      THEN Returned(FILE_DOES_NOT_EXIST, files,
                    [Exec(T_read_file) EXCEPT !.fsTouched = TRUE,
                                              !.path = filePath.path])
      ELSE Returned(files[filePath.path].content, files,
                    [Exec(T_read_file) EXCEPT !.fsTouched = TRUE,
                                              !.path = filePath.path])

write_file(context, files, path, content) ==
  LET filePath == safePathJoin(context, path)
      touched == [Exec(T_write_file) EXCEPT !.fsTouched = TRUE,
                                            !.path = filePath.path]
  IN  IF ~filePath.ok
      THEN Raised("upwardTraversal", files, Exec(T_write_file))
      ELSE IF Trim(content) = <<>>
      THEN Returned(DONE,
                    IF pathIsFile(files, filePath.path)
                    THEN RemoveFile(files, filePath.path)
                    ELSE files,
                    touched)
      ELSE LET made == mkdirP(files, Dirname(filePath.path))
           IN  IF ~made.ok THEN Raised("fs", made.files, touched)
               ELSE LET written == WriteFile(made.files, filePath.path, content)
                    IN  IF ~written.ok
                        THEN Raised("fs", written.files, touched)
                        ELSE Returned(DONE, written.files, touched)

\* a test that every answer passes
Affirmative_AnyAnswer(v, userResponse) == TRUE

\* the test of the user's answer: startsWith("y") in firebuild, === "y" in cli.ts
Affirmative(v, userResponse) ==
  IF v = "firebuild"
  THEN StartsWith(ToLowerCase(userResponse), <<"y">>)
  ELSE ToLowerCase(userResponse) = <<"y">>

run(v, context, files, command, env) ==
  LET asked == [Exec(T_run) EXCEPT !.answer = env.answer]
      ran == [asked EXCEPT !.shellRan = TRUE]
      resPrefix == IF env.shell.kind = "ok"
                   THEN DONE \o <<NL, NL>>
                   ELSE <<"<", "f", "a", "i", "l", "e", "d", " ", "w", "i", "t", "h",
                          " ", "c", "o", "d", "e", " ">> \o env.shell.code
                        \o <<">", NL, NL>>
      stderr == Trim(env.shell.stderr)
  IN  IF ~Affirmative(v, env.answer)
      THEN Returned(USER_CANCELED, files, asked)
      ELSE IF env.shell.kind = "error"
      THEN Raised("exec", files, ran)
      ELSE Returned(
             Trim(resPrefix \o Trim(env.shell.stdout)
                  \o (IF stderr # <<>>
                      THEN <<NL, NL, "s", "t", "d", "e", "r", "r", ":", NL, NL>> \o stderr
                      ELSE <<>>)),
             files, ran)

\* env.http is what fetch does: kind "ok" with a status and a body, or kind
\* "error" (fetch rejects)
make_http_request(context, files, env) ==
  LET sent == [Exec(T_make_http_request) EXCEPT !.httpSent = TRUE]
  IN  IF env.http.kind = "error"
      THEN Raised("fetch", files, sent)
      ELSE Returned(
             <<"S", "t", "a", "t", "u", "s", " ", "c", "o", "d", "e", ":", " ">>
             \o env.http.status
             \o <<NL, NL, "R", "e", "s", "p", "o", "n", "s", "e", ":", NL, NL>>
             \o env.http.body,
             files, sent)

\* complete_request returning the text of the other tools
complete_request_Done(context, files) ==
  Returned(DONE, files, Exec(T_complete_request))

complete_request(context, files) ==
  Returned(END_CONVERSATION, files, Exec(T_complete_request))

\* fn.execute(context, args) of the tool called name
execute(v, name, context, files, args, env) ==
  CASE name = T_list_files -> list_files(context, files, env)
    [] name = T_read_file -> read_file(context, files, Get(args, T_path).s)
    [] name = T_write_file ->
         write_file(context, files, Get(args, T_path).s, Get(args, T_content).s)
    [] name = T_run -> run(v, context, files, Get(args, T_command).s, env)
    [] name = T_make_http_request -> make_http_request(context, files, env)
    [] OTHER -> complete_request(context, files)

\* handleFunctionCall throwing on arguments it cannot parse
handleFunctionCall_ThrowsOnArguments(v, context, files, functionCall, env) ==
  IF functionCall.name \notin Registry(v)
  THEN Raised("functionNotFound", files, NoExec)
  ELSE IF ~parseGptJson(functionCall.arguments).ok
  THEN Raised("arguments", files, NoExec)
  ELSE IF ~parametersSchema(functionCall.name, parseGptJson(functionCall.arguments).val)
  THEN Raised("arguments", files, NoExec)
  ELSE execute(v, functionCall.name, context, files,
               parseGptJson(functionCall.arguments).val, env)

\* handleFunctionCall parsing the arguments before it looks the name up
handleFunctionCall_ParsesFirst(v, context, files, functionCall, env) ==
  IF ~parseGptJson(functionCall.arguments).ok
  THEN Returned(ERROR_PARSING_ARGUMENTS, files, NoExec)
  ELSE IF functionCall.name \notin Registry(v)
  THEN Raised("functionNotFound", files, NoExec)
  ELSE IF ~parametersSchema(functionCall.name, parseGptJson(functionCall.arguments).val)
  THEN Returned(ERROR_PARSING_ARGUMENTS, files, NoExec)
  ELSE execute(v, functionCall.name, context, files,
               parseGptJson(functionCall.arguments).val, env)

handleFunctionCall(v, context, files, functionCall, env) ==
  IF functionCall.name \notin Registry(v)
  THEN Raised("functionNotFound", files, NoExec)
  ELSE LET rawParsedJson == parseGptJson(functionCall.arguments)
       IN  IF ~rawParsedJson.ok
              \/ ~parametersSchema(functionCall.name, rawParsedJson.val)
           THEN Returned(ERROR_PARSING_ARGUMENTS, files, NoExec)
           ELSE execute(v, functionCall.name, context, files, rawParsedJson.val, env)

----------------------------------------------------------------------------
(* gptApi.ts: the messages of the history *)

NoCall == [present |-> FALSE, name |-> <<>>, arguments |-> <<>>]

FunctionCall(name, arguments) ==
  [present |-> TRUE, name |-> name, arguments |-> arguments]

SystemMessage(content) ==
  [role |-> "system", content |-> content, name |-> <<>>, function_call |-> NoCall]

UserMessage(content) ==
  [role |-> "user", content |-> content, name |-> <<>>, function_call |-> NoCall]

AssistantMessage(content, call) ==
  [role |-> "assistant", content |-> content, name |-> <<>>, function_call |-> call]

FunctionMessage(name, content) ==
  [role |-> "function", content |-> content, name |-> name, function_call |-> NoCall]

\* messageSchema.parse(message) succeeds: one of the four shapes
messageSchema(message) ==
  message.role \in {"system", "user", "assistant", "function"}

\* the first line of the system prompt stands for its whole text
SYSTEM_PROMPT ==
  <<"#"," ","O","v","e","r","v","i","e","w">>

FIRST_LIST_FILES ==
  <<"F","i","r","s","t",","," ","l","e","t","'","s"," ","l","i","s","t"," ","t","h","e"," ","f","i","l","e","s"," ","i","n"," ","t","h","e"," ","p","r","o","j","e","c","t",".">>

EMPTY_OBJECT == <<"{", "}">>

\* a history that starts without the call of list_files
InitialMessages_NoListing(request) ==
  << SystemMessage(SYSTEM_PROMPT), UserMessage(request) >>

\* the history handleUserRequest starts with
InitialMessages(request) ==
  << SystemMessage(SYSTEM_PROMPT),
     UserMessage(request),
     AssistantMessage(FIRST_LIST_FILES, FunctionCall(T_list_files, EMPTY_OBJECT)) >>


----------------------------------------------------------------------------
(* gptApi.ts: callGptApi *)

totalTries == 3

\* response.ok
Ok(status) == status >= 200 /\ status <= 299

\* the body of the catch block: what follows a fault of one pass of the loop,
\* [raise, triesLeft, sleep]: re-raise, or the tries left and the wait
CatchBlock(doNotRetry, tries) ==
  IF doNotRetry THEN [raise |-> TRUE, triesLeft |-> tries, sleep |-> 0]
  ELSE IF tries > 0
  THEN [raise |-> FALSE, triesLeft |-> tries - 1,
        sleep |-> 1000 * (totalTries - (tries - 1))]
  ELSE [raise |-> TRUE, triesLeft |-> tries, sleep |-> 0]

\* a range test that lets 429 be retried
DoNotRetry_Except429(status, bodyRead) ==
  bodyRead /\ status >= 400 /\ status < 500 /\ status # 429

\* doNotRetry after a response that is not ok: set for 400..499, once
\* response.text() has been read; a body that cannot be read throws before
DoNotRetry(status, bodyRead) ==
  bodyRead /\ status >= 400 /\ status < 500

\* the three schemas of the union, in its order
LengthChoice(choice) ==
  /\ IsObject(choice)
  /\ IsString(Get(choice, T_finish_reason))
  /\ Get(choice, T_finish_reason).s = T_length

\* the "stop" schema without its function_call: z.undefined() member
StopChoice_AnyFunctionCall(choice) ==
  /\ IsObject(choice)
  /\ IsString(Get(choice, T_finish_reason))
  /\ Get(choice, T_finish_reason).s = T_stop
  /\ IsObject(Get(choice, T_message))
  /\ IsString(Get(Get(choice, T_message), T_content))
  /\ IsString(Get(Get(choice, T_message), T_role))
  /\ Get(Get(choice, T_message), T_role).s = T_assistant

StopChoice(choice) ==
  /\ IsObject(choice)
  /\ IsString(Get(choice, T_finish_reason))
  /\ Get(choice, T_finish_reason).s = T_stop
  /\ IsObject(Get(choice, T_message))
  /\ LET message == Get(choice, T_message)
     IN  /\ IsString(Get(message, T_content))
         /\ IsString(Get(message, T_role))
         /\ Get(message, T_role).s = T_assistant
         /\ Get(message, T_function_call).t = "undefined"

\* the "function_call" schema with a name of at least one character
FunctionCallChoice_NamedCall(choice) ==
  /\ IsObject(choice)
  /\ IsString(Get(choice, T_finish_reason))
  /\ Get(choice, T_finish_reason).s = T_function_call
  /\ IsObject(Get(choice, T_message))
  /\ LET message == Get(choice, T_message)
     IN  /\ Get(message, T_content).t \in {"string", "null"}
         /\ IsString(Get(message, T_role))
         /\ Get(message, T_role).s = T_assistant
         /\ IsObject(Get(message, T_function_call))
         /\ IsString(Get(Get(message, T_function_call), T_name))
         /\ Get(Get(message, T_function_call), T_name).s # <<>>
         /\ IsString(Get(Get(message, T_function_call), T_arguments))

FunctionCallChoice(choice) ==
  /\ IsObject(choice)
  /\ IsString(Get(choice, T_finish_reason))
  /\ Get(choice, T_finish_reason).s = T_function_call
  /\ IsObject(Get(choice, T_message))
  /\ LET message == Get(choice, T_message)
     IN  /\ Get(message, T_content).t \in {"string", "null"}
         /\ IsString(Get(message, T_role))
         /\ Get(message, T_role).s = T_assistant
         /\ IsObject(Get(message, T_function_call))
         /\ IsString(Get(Get(message, T_function_call), T_name))
         /\ IsString(Get(Get(message, T_function_call), T_arguments))

NoMessage ==
  [role |-> "none", content |-> <<>>, name |-> <<>>, function_call |-> NoCall]

\* what the parse of a response comes to: Failure, a new message, or an error
Failure == [kind |-> "failure", error |-> "exceededTokenLimit", newMessage |-> NoMessage]

NewMessage(message) == [kind |-> "success", error |-> "none", newMessage |-> message]

Throw(error) == [kind |-> "raised", error |-> error, newMessage |-> NoMessage]

\* the union parse of the first choice and the branch on finish_reason
ParseChoice(choice) ==
  IF LengthChoice(choice) THEN Failure
  ELSE IF StopChoice(choice)
  THEN NewMessage(AssistantMessage(Get(Get(choice, T_message), T_content).s, NoCall))
  ELSE IF FunctionCallChoice(choice)
  THEN LET message == Get(choice, T_message)
           call == Get(message, T_function_call)
       IN  NewMessage(
             AssistantMessage(
               IF Get(message, T_content).t = "null"
               THEN <<>>
               ELSE Get(message, T_content).s,
               FunctionCall(Get(call, T_name).s, Get(call, T_arguments).s)))
  ELSE Throw("choiceSchema")

\* a parse that hands the body to parseGptJson instead of response.json()
ParseResponse_Sanitized(bodyRead, body) ==
  LET json == parseGptJson(body)
  IN  IF ~bodyRead \/ ~json.ok THEN Throw("responseJson")
      ELSE IF ~IsObject(json.val) \/ Get(json.val, T_choices).t # "array"
      THEN Throw("responseSchema")
      ELSE IF Get(json.val, T_choices).kids = <<>>
      THEN Throw("noResponse")
      ELSE ParseChoice(Get(json.val, T_choices).kids[1])

\* a parse that reports an empty choices array as the failure
ParseResponse_NoChoiceIsFailure(bodyRead, body) ==
  LET json == JsonParse(body)
  IN  IF ~bodyRead \/ ~json.ok THEN Throw("responseJson")
      ELSE IF ~IsObject(json.val) \/ Get(json.val, T_choices).t # "array"
      THEN Throw("responseSchema")
      ELSE IF Get(json.val, T_choices).kids = <<>>
      THEN Failure
      ELSE ParseChoice(Get(json.val, T_choices).kids[1])

\* what follows the loop once a response is ok: response.json(), the choices
\* array, its first element, the union
ParseResponse(bodyRead, body) ==
  LET json == JsonParse(body)
  IN  IF ~bodyRead \/ ~json.ok THEN Throw("responseJson")
      ELSE IF ~IsObject(json.val) \/ Get(json.val, T_choices).t # "array"
      THEN Throw("responseSchema")
      ELSE IF Get(json.val, T_choices).kids = <<>>
      THEN Throw("noResponse")
      ELSE ParseChoice(Get(json.val, T_choices).kids[1])

\* the value callGptApi hands to its caller, and history: the array the
\* caller passed, as the call leaves it
NoResult ==
  [kind |-> "none", error |-> "none", newMessage |-> NoMessage, messages |-> <<>>,
   history |-> <<>>]

\* getReturnValue pushing newMessage onto the array of the caller
getReturnValue_Pushes(history, newMessage) ==
  [kind |-> "success", error |-> "none", newMessage |-> newMessage,
   messages |-> Append(history, newMessage),
   history |-> Append(history, newMessage)]

\* messages: [...messages, newMessage] is a new array
getReturnValue(history, newMessage) ==
  [kind |-> "success", error |-> "none", newMessage |-> newMessage,
   messages |-> Append(history, newMessage),
   history |-> history]

Result(history, parsed) ==
  IF parsed.kind = "success"
  THEN getReturnValue(history, parsed.newMessage)
  ELSE [kind |-> parsed.kind, error |-> parsed.error, newMessage |-> NoMessage,
        messages |-> <<>>, history |-> history]

----------------------------------------------------------------------------
(* The environment: what the user types, what is on the disk, and what the   *)
(* completion endpoint, the shell and the network answer.  These are the     *)
(* inputs of the state machine, drawn from the small sets below.             *)

\* context.codePath as typed by the user: /w/p, with and without a final slash
CodePaths ==
  { <<"/", "w", "/", "p">>, <<"/", "w", "/", "p", "/">> }

\* the project directory /w/p beside a directory /w/p2 with a file s; the
\* project may hold a file a
BaseDisk ==
  (<<"/">> :> Directory) @@ (<<"/", "w">> :> Directory)
  @@ (<<"/", "w", "/", "p">> :> Directory)
  @@ (<<"/", "w", "/", "p", "2">> :> Directory)
  @@ (<<"/", "w", "/", "p", "2", "/", "s">> :> File(<<"k", "e", "y">>))

InitialDisks ==
  { BaseDisk,
    (<<"/", "w", "/", "p", "/", "a">> :> File(END_CONVERSATION)) @@ BaseDisk }

\* the request typed at "What do you want to do?"; askUserMultiLine of cli.ts
\* also yields the empty text
Requests(v) ==
  IF v = "firebuild" THEN {<<"g", "o">>} ELSE {<<"g", "o">>, <<>>}

\* the answers to "Do you want to run this command?" and to "Respond to GPT"
Answers == { <<"y">>, <<"n">>, <<"Y", "e", "s">> }

\* the arguments texts the model sends
ARGS_PATH_A ==
  <<"{","\"","p","a","t","h","\"",":","\"","a","\"","}">>

ARGS_PATH_UP ==
  <<"{","\"","p","a","t","h","\"",":","\"",".",".","/",".",".","/","e","\"","}">>

ARGS_PATH_SIBLING ==
  <<"{","\"","p","a","t","h","\"",":","\"",".",".","/","p","2","/","s","\"","}">>

ARGS_TRUNCATED ==
  <<"{","\"","p","a","t","h","\"",":">>

ARGS_PATH_NUMBER ==
  <<"{","\"","p","a","t","h","\"",":","1","}">>

ARGS_WRITE_SENTINEL ==
  <<"{","\"","p","a","t","h","\"",":","\"","a","\"",",","\"","c","o","n","t","e","n","t","\"",":","\"","<","e","n","d","_","c","o","n","v","e","r","s","a","t","i","o","n",">","\"","}">>

ARGS_WRITE_NEWLINE ==
  <<"{","\"","p","a","t","h","\"",":","\"","d","/","b","\"",",","\"","c","o","n","t","e","n","t","\"",":","\"","h","\n","i","\"","}">>

ARGS_WRITE_BLANK ==
  <<"{","\"","p","a","t","h","\"",":","\"","a","\"",",","\"","c","o","n","t","e","n","t","\"",":","\""," ","\"","}">>

ARGS_SUMMARY ==
  <<"{","\"","s","u","m","m","a","r","y","\"",":","\"","o","k","\"","}">>

ARGS_COMMAND ==
  <<"{","\"","c","o","m","m","a","n","d","\"",":","\"","l","s","\"","}">>

ARGS_HTTP ==
  <<"{","\"","m","e","t","h","o","d","\"",":","\"","G","E","T","\"",",","\"","u","r","l","\"",":","\"","u","\"","}">>

BOGUS == <<"b", "o", "g", "u", "s">>

\* the tool calls the model asks for: [name, arguments]
ToolCalls ==
  { FunctionCall(T_list_files, EMPTY_OBJECT),
    FunctionCall(T_read_file, ARGS_PATH_A),
    FunctionCall(T_read_file, ARGS_PATH_UP),
    FunctionCall(T_read_file, ARGS_PATH_SIBLING),
    FunctionCall(T_read_file, EMPTY_OBJECT),
    FunctionCall(T_read_file, ARGS_TRUNCATED),
    FunctionCall(T_read_file, ARGS_PATH_NUMBER),
    FunctionCall(T_write_file, ARGS_WRITE_SENTINEL),
    FunctionCall(T_write_file, ARGS_WRITE_NEWLINE),
    FunctionCall(T_write_file, ARGS_WRITE_BLANK),
    FunctionCall(T_run, ARGS_COMMAND),
    FunctionCall(T_make_http_request, ARGS_HTTP),
    FunctionCall(T_complete_request, ARGS_SUMMARY),
    FunctionCall(T_complete_request, EMPTY_OBJECT),
    FunctionCall(BOGUS, EMPTY_OBJECT),
    FunctionCall(BOGUS, ARGS_TRUNCATED),
    FunctionCall(<<>>, EMPTY_OBJECT) }

\* JSON.stringify of a text
RECURSIVE JsonEscape(_)
JsonEscape(s) ==
  IF s = <<>> THEN <<>>
  ELSE IF Len(s) = 1
    THEN CASE s[1] = QUOTE -> <<BS, QUOTE>>
           [] s[1] = BS -> <<BS, BS>>
           [] s[1] = NL -> <<BS, "n">>
           [] OTHER -> s
  ELSE JsonEscape(SubSeq(s, 1, Len(s) \div 2))
       \o JsonEscape(SubSeq(s, Len(s) \div 2 + 1, Len(s)))

JsonString(s) == <<QUOTE>> \o JsonEscape(s) \o <<QUOTE>>

\* the text of an object from its members <<key, text of the value>>
RECURSIVE MembersText(_, _)
MembersText(members, i) ==
  IF i > Len(members) THEN <<>>
  ELSE JsonString(members[i][1]) \o <<":">> \o members[i][2]
       \o (IF i < Len(members) THEN <<",">> ELSE <<>>)
       \o MembersText(members, i + 1)

ObjectText(members) == <<"{">> \o MembersText(members, 1) \o <<"}">>

\* the message texts of a choice: the assistant's role with a content, a
\* function_call, both, or another role
NULL == <<"n", "u", "l", "l">>

HI == <<"h", "i">>

CallText(call) ==
  ObjectText(<< <<T_name, JsonString(call.name)>>,
                <<T_arguments, JsonString(call.arguments)>> >>)

MessageText(role, contentText) ==
  ObjectText(<< <<T_role, JsonString(role)>>, <<T_content, contentText>> >>)

MessageWithCallText(role, contentText, callText) ==
  ObjectText(<< <<T_role, JsonString(role)>>, <<T_content, contentText>>,
                <<T_function_call, callText>> >>)

\* the body {"choices":[choice]}
BodyText(choiceText) ==
  ObjectText(<< <<T_choices, <<"[">> \o choiceText \o <<"]">> >> >>)

ChoiceText(finishReason, messageText) ==
  ObjectText(<< <<T_finish_reason, JsonString(finishReason)>>,
                <<T_message, messageText>> >>)

SampleCall == FunctionCall(T_read_file, ARGS_PATH_A)

MessageTexts ==
  { MessageText(T_assistant, JsonString(HI)),
    MessageText(T_assistant, NULL),
    MessageText(<<"u", "s", "e", "r">>, JsonString(HI)),
    MessageWithCallText(T_assistant, JsonString(HI), CallText(SampleCall)),
    MessageWithCallText(<<"u", "s", "e", "r">>, NULL, CallText(SampleCall)),
    MessageWithCallText(T_assistant, NULL,
      ObjectText(<< <<T_name, <<"1">> >>, <<T_arguments, JsonString(EMPTY_OBJECT)>> >>)),
    MessageWithCallText(T_assistant, NULL, NULL),
    ObjectText(<< <<T_role, JsonString(T_assistant)>>,
                  <<T_function_call, CallText(SampleCall)>> >>) }
  \cup { MessageWithCallText(T_assistant, NULL, CallText(call)) : call \in ToolCalls }

FinishReasons ==
  { T_length, T_stop, T_function_call,
    <<"c", "o", "n", "t", "e", "n", "t", "_", "f", "i", "l", "t", "e", "r">> }

\* the bodies of the 2xx responses: every finish_reason with every message,
\* and with no message; a choice without finish_reason; no choice; no choices
\* array; a text that is not JSON; a body with a raw newline inside a string
Bodies ==
  { BodyText(ChoiceText(r, m)) : r \in FinishReasons, m \in MessageTexts }
  \cup { BodyText(ObjectText(<< <<T_finish_reason, JsonString(r)>> >>)) : r \in FinishReasons }
  \cup { BodyText(ObjectText(<< <<T_message, MessageText(T_assistant, JsonString(HI))>> >>)),
         BodyText(NULL),
         BodyText(<<>>),
         ObjectText(<<>>),
         <<"<", "h", "t", "m", "l", ">">>,
         BodyText(ChoiceText(T_stop,
           MessageText(T_assistant, <<QUOTE, "h", NL, "i", QUOTE>>))) }


\* what one fetch comes to: it rejects, or a response with a status whose
\* body can be read or not
TransportOutcomes ==
  { [kind |-> "reject", status |-> 0, bodyRead |-> FALSE, body |-> <<>>] }
  \cup { [kind |-> "response", status |-> st, bodyRead |-> r, body |-> <<>>] :
           st \in {404, 429, 500}, r \in BOOLEAN }
  \cup { [kind |-> "response", status |-> 200, bodyRead |-> FALSE, body |-> <<>>] }
  \cup { [kind |-> "response", status |-> 200, bodyRead |-> TRUE, body |-> b] :
           b \in Bodies }

\* what a child process does: the output of tree, and of a command
ShellOk(stdout, stderr) ==
  [kind |-> "ok", code |-> <<"0">>, stdout |-> stdout, stderr |-> stderr]

ShellFailed(code, stdout, stderr) ==
  [kind |-> "failed", code |-> code, stdout |-> stdout, stderr |-> stderr]

ShellError == [kind |-> "error", code |-> <<>>, stdout |-> <<>>, stderr |-> <<>>]

TreeOutcomes == { ShellOk(<<".", NL, "a", NL>>, <<>>), ShellFailed(<<"1">>, <<>>, <<>>) }

RunOutcomes ==
  { ShellOk(END_CONVERSATION \o <<NL>>, <<>>),
    ShellOk(<<>>, <<"w", NL>>),
    ShellFailed(<<"2">>, <<>>, <<"e">>),
    ShellError }

NoHttp == [kind |-> "error", status |-> <<>>, body |-> <<>>]

HttpOutcomes ==
  { [kind |-> "ok", status |-> <<"2", "0", "0">>, body |-> END_CONVERSATION],
    [kind |-> "ok", status |-> <<"4", "0", "4">>, body |-> <<>>],
    NoHttp }

\* what the user and the outside world answer during one tool call
Envs(name) ==
  IF name = T_list_files
  THEN { [answer |-> <<>>, shell |-> sh, http |-> NoHttp] : sh \in TreeOutcomes }
  ELSE IF name = T_run
  THEN { [answer |-> a, shell |-> sh, http |-> NoHttp] :
           a \in Answers, sh \in RunOutcomes }
  ELSE IF name = T_make_http_request
  THEN { [answer |-> <<>>, shell |-> ShellError, http |-> h] : h \in HttpOutcomes }
  ELSE { [answer |-> <<>>, shell |-> ShellError, http |-> NoHttp] }

----------------------------------------------------------------------------
(* The bounds of the model *)

\* CallModel and AskUser stop once the history holds this many entries
MaxMessages == 6

\* main starts at most this many request cycles
MaxCycles == 2

----------------------------------------------------------------------------
(* The state machine: main, handleUserRequest and callGptApi *)

\* response.json() and the parse of every body, computed once
ParsedBodies == [b \in Bodies |-> ParseResponse(TRUE, b)]

LastMessage == messages[Len(messages)]

\* a loop that asks the user after an assistant message without
\* function_call, in both drivers
LoopBranch_AlwaysAsksUser(v, lastMessage) ==
  IF lastMessage.role = "assistant" /\ lastMessage.function_call.present
  THEN "dispatch"
  ELSE IF lastMessage.role = "assistant" THEN "askUser"
  ELSE IF lastMessage.role \in {"user", "function"} THEN "callModel"
  ELSE "unreachable"

\* a loop that calls the model again after an assistant message without
\* function_call, in both drivers
LoopBranch_NeverAsksUser(v, lastMessage) ==
  IF lastMessage.role = "assistant" /\ lastMessage.function_call.present
  THEN "dispatch"
  ELSE IF lastMessage.role \in {"user", "function", "assistant"} THEN "callModel"
  ELSE "unreachable"

\* the branch the loop of handleUserRequest takes on the last message
LoopBranch(v, lastMessage) ==
  IF lastMessage.role = "assistant" /\ lastMessage.function_call.present
  THEN "dispatch"
  ELSE IF v = "firebuild"
  THEN IF lastMessage.role = "assistant" THEN "askUser"
       ELSE IF lastMessage.role \in {"user", "function"} THEN "callModel"
       ELSE "unreachable"
  ELSE IF lastMessage.role \in {"user", "function", "assistant"} THEN "callModel"
       ELSE "unreachable"

\* the loop putting the result in the place of the call it answers
AfterFunctionCall_ReplacesCall(history, functionCall, functionRes) ==
  IF functionRes = END_CONVERSATION
  THEN [return |-> TRUE, messages |-> history]
  ELSE [return |-> FALSE,
        messages |-> [history EXCEPT ![Len(history)] =
                        FunctionMessage(functionCall.name, functionRes)]]

\* the loop pushing the result without the name of the call
AfterFunctionCall_Unnamed(history, functionCall, functionRes) ==
  IF functionRes = END_CONVERSATION
  THEN [return |-> TRUE, messages |-> history]
  ELSE [return |-> FALSE,
        messages |-> Append(history, FunctionMessage(<<>>, functionRes))]

\* what the loop does with the text handleFunctionCall returned:
\* [return, messages]
AfterFunctionCall(history, functionCall, functionRes) ==
  IF functionRes = END_CONVERSATION
  THEN [return |-> TRUE, messages |-> history]
  ELSE [return |-> FALSE,
        messages |-> Append(history, FunctionMessage(functionCall.name, functionRes))]

\* the loop pushing newMessage without looking at gptRes.success
AfterGptApi_Unchecked(history, gptRes) ==
  [raise |-> "none", messages |-> Append(history, gptRes.newMessage)]

\* what the loop does with the value callGptApi returned: [raise, messages]
AfterGptApi(history, gptRes) ==
  IF gptRes.kind # "success"
  THEN [raise |-> "gptFailed", messages |-> history]
  ELSE [raise |-> "none", messages |-> Append(history, gptRes.newMessage)]

apiVars == <<triesLeft, attempts, sleeps, lastStatus, lastBodyRead, apiBody, apiResult>>

utilVars == <<utilPc, gptJson, preprocessedString, parsedJson>>

ApiIdle ==
  /\ triesLeft = 0
  /\ attempts = 0
  /\ sleeps = <<>>
  /\ lastStatus = 0
  /\ lastBodyRead = FALSE
  /\ apiBody = <<>>
  /\ apiResult = NoResult

UtilIdle ==
  /\ utilPc = "idle"
  /\ gptJson = <<>>
  /\ preprocessedString = <<>>
  /\ parsedJson = [ok |-> FALSE, val |-> JUndefined]

Init ==
  /\ variant \in {"firebuild", "cli"}
  /\ codePath \in CodePaths
  /\ mainPc = "ask"
  /\ cycle = 0
  /\ messages = <<>>
  /\ fs \in InitialDisks
  /\ lastExec = NoExec
  /\ fault = "none"
  /\ ApiIdle
  /\ UtilIdle

\* main: the user types a request and handleUserRequest starts
StartRequest ==
  /\ mainPc = "ask"
  /\ cycle < MaxCycles
  /\ \E request \in Requests(variant) :
       messages' = InitialMessages(request)
  /\ mainPc' = "loop"
  /\ cycle' = cycle + 1
  /\ lastExec' = NoExec
  /\ UNCHANGED <<variant, codePath, fs, fault, apiVars, utilVars>>

\* the loop once handleFunctionCall is over: an error goes up through main,
\* the sentinel ends the cycle, any other text is pushed
AfterDispatch(functionCall, done) ==
  /\ fs' = done.files
  /\ lastExec' = done.exec
  /\ IF done.raised # "none"
     THEN /\ mainPc' = "crashed"
          /\ fault' = done.raised
          /\ UNCHANGED messages
     ELSE /\ mainPc' = IF AfterFunctionCall(messages, functionCall, done.res).return
                       THEN "ask"
                       ELSE "loop"
          /\ messages' = AfterFunctionCall(messages, functionCall, done.res).messages
          /\ UNCHANGED fault

\* the loop on an assistant message with a function_call
Dispatch ==
  /\ mainPc = "loop"
  /\ LoopBranch(variant, LastMessage) = "dispatch"
  /\ \E env \in Envs(LastMessage.function_call.name) :
       AfterDispatch(
         LastMessage.function_call,
         handleFunctionCall(variant, codePath, fs, LastMessage.function_call, env))
  /\ UNCHANGED <<variant, codePath, cycle, apiVars, utilVars>>

\* the loop on an assistant message without function_call: firebuild asks the
\* user; and the last line of the loop, for a message no branch takes
AskUser ==
  /\ mainPc = "loop"
  /\ LoopBranch(variant, LastMessage) \in {"askUser", "unreachable"}
  /\ Len(messages) < MaxMessages
  /\ IF LoopBranch(variant, LastMessage) = "askUser"
     THEN /\ \E userInput \in Answers :
               messages' = Append(messages, UserMessage(userInput))
          /\ UNCHANGED <<mainPc, fault>>
     ELSE /\ mainPc' = "crashed"
          /\ fault' = "unreachable"
          /\ UNCHANGED messages
  /\ UNCHANGED <<variant, codePath, cycle, fs, lastExec, apiVars, utilVars>>

\* the loop on a user or function message (in cli.ts, on any message without
\* function_call): callGptApi starts
CallModel ==
  /\ mainPc = "loop"
  /\ LoopBranch(variant, LastMessage) = "callModel"
  /\ Len(messages) < MaxMessages
  /\ mainPc' = "api"
  /\ triesLeft' = totalTries
  /\ attempts' = 0
  /\ sleeps' = <<>>
  /\ lastStatus' = 0
  /\ lastBodyRead' = FALSE
  /\ apiBody' = <<>>
  /\ apiResult' = NoResult
  /\ UNCHANGED <<variant, codePath, cycle, messages, fs, lastExec, fault, utilVars>>

\* callGptApi: one pass of its while loop, and what follows the loop when the
\* response is ok
ApiAttempt ==
  /\ mainPc = "api"
  /\ apiResult.kind = "none"
  /\ \E o \in TransportOutcomes :
       IF \E i \in 1..Len(messages) : ~messageSchema(messages[i])
       THEN LET c == CatchBlock(FALSE, triesLeft)
            IN  /\ triesLeft' = c.triesLeft
                /\ sleeps' = IF c.raise THEN sleeps ELSE Append(sleeps, c.sleep)
                /\ apiResult' = IF c.raise THEN Result(messages, Throw("messageSchema"))
                                ELSE apiResult
                /\ UNCHANGED <<attempts, lastStatus, lastBodyRead, apiBody>>
       ELSE /\ attempts' = attempts + 1
            /\ lastStatus' = o.status
            /\ lastBodyRead' = (o.kind = "response" /\ o.bodyRead)
            /\ IF o.kind = "response" /\ Ok(o.status)
               THEN /\ apiBody' = o.body
                    /\ apiResult' = Result(messages,
                                      IF o.bodyRead THEN ParsedBodies[o.body]
                                      ELSE ParseResponse(FALSE, o.body))
                    /\ UNCHANGED <<triesLeft, sleeps>>
               ELSE LET c == CatchBlock(
                               o.kind = "response" /\ DoNotRetry(o.status, o.bodyRead),
                               triesLeft)
                    IN  /\ triesLeft' = c.triesLeft
                        /\ sleeps' = IF c.raise THEN sleeps ELSE Append(sleeps, c.sleep)
                        /\ apiResult' =
                             IF ~c.raise THEN apiResult
                             ELSE Result(messages,
                                    Throw(IF o.kind = "reject" THEN "fetchRejected"
                                          ELSE IF o.bodyRead THEN "responseNotOk"
                                          ELSE "bodyNotRead"))
                        /\ UNCHANGED apiBody
  /\ messages' = IF apiResult'.kind = "none" THEN messages ELSE apiResult'.history
  /\ UNCHANGED <<variant, codePath, mainPc, cycle, fs, lastExec, fault, utilVars>>

\* callGptApi is over: the loop appends the new message, or the error goes up
\* through handleUserRequest and main
ApiReturn ==
  /\ mainPc = "api"
  /\ apiResult.kind # "none"
  /\ IF apiResult.kind = "raised"
     THEN /\ mainPc' = "crashed"
          /\ fault' = apiResult.error
          /\ UNCHANGED messages
     ELSE LET after == AfterGptApi(messages, apiResult)
          IN  /\ messages' = after.messages
              /\ fault' = after.raise
              /\ mainPc' = IF after.raise = "none" THEN "loop" ELSE "crashed"
  /\ triesLeft' = 0
  /\ attempts' = 0
  /\ sleeps' = <<>>
  /\ lastStatus' = 0
  /\ lastBodyRead' = FALSE
  /\ apiBody' = <<>>
  /\ apiResult' = NoResult
  /\ UNCHANGED <<variant, codePath, cycle, fs, lastExec, utilVars>>

Next ==
  \/ StartRequest
  \/ Dispatch
  \/ AskUser
  \/ CallModel
  \/ ApiAttempt
  \/ ApiReturn

Spec == Init /\ [][Next]_vars

----------------------------------------------------------------------------
(* The claims about the retries of callGptApi *)

\* C1: in one call of callGptApi at most 3 fetch calls are made, whatever the
\* transport does.
C1_AtMostThreeAttempts ==
  attempts <= 3

\* C2: an attempt that received a status in 400..499 has made the call raise:
\* no backoff sleep follows it (every sleep so far precedes an attempt) and no
\* further attempt is made.
C2_ClientFaultRaisesAtOnce ==
  (mainPc = "api" /\ lastStatus >= 400 /\ lastStatus <= 499)
    => /\ apiResult.kind = "raised"
       /\ Len(sleeps) = attempts - 1

----------------------------------------------------------------------------
(* The claims about the end of a request cycle *)

\* handleUserRequest has returned normally: main is back at its prompt
Returned_Normally ==
  mainPc = "ask" /\ cycle > 0

\* the loop is about to call handleFunctionCall
DispatchEnabled ==
  mainPc = "loop" /\ LoopBranch(variant, LastMessage) = "dispatch"

\* the arguments of a call parse, after sanitizing, and satisfy the schema of
\* the tool
ArgumentsAccepted(functionCall) ==
  /\ parseGptJson(functionCall.arguments).ok
  /\ parametersSchema(functionCall.name, parseGptJson(functionCall.arguments).val)

\* C3: handleUserRequest returns normally only when the call that was just
\* dispatched named complete_request; no result of another tool ends the cycle.
C3_OnlyCompleteRequestReturns ==
  Returned_Normally => LastMessage.function_call.name = T_complete_request

\* C4 as stated: every dispatch of a call named complete_request ends the cycle
\* and leaves the history as it was.
C4_EveryCompleteRequestEndsCycle ==
  [][(DispatchEnabled /\ LastMessage.function_call.name = T_complete_request)
       => (mainPc' = "ask" /\ messages' = messages)]_vars

\* C4 as amended: the dispatch of a call named complete_request whose arguments
\* parse and satisfy the schema (a summary string) ends the cycle and leaves the
\* history as it was: nothing is appended and the model is not called again.
C4_AcceptedCompleteRequestEndsCycle ==
  [][(/\ DispatchEnabled
      /\ LastMessage.function_call.name = T_complete_request
      /\ ArgumentsAccepted(LastMessage.function_call))
       => (mainPc' = "ask" /\ messages' = messages /\ attempts' = 0)]_vars

\* a cycle that a complete_request ended
C4_CycleEndedByCompleteRequest ==
  /\ Returned_Normally
  /\ LastMessage.function_call.name = T_complete_request
  /\ lastExec.tool = T_complete_request

\* callGptApi has returned Failure(exceededTokenLimit) and the loop has not
\* looked at it yet
FailureReturned ==
  mainPc = "api" /\ apiResult.kind = "failure"

\* C5 as stated: on Failure(exceededTokenLimit) nothing is appended to the
\* history and handleUserRequest does not raise.
C5_FailureIsReportedNotRaised ==
  [][FailureReturned => (messages' = messages /\ mainPc' # "crashed")]_vars

\* C5 as amended: on Failure(exceededTokenLimit) nothing is appended to the
\* history and handleUserRequest raises the error "gpt failed".
C5_FailureAppendsNothingAndRaises ==
  [][FailureReturned
       => (messages' = messages /\ mainPc' = "crashed" /\ fault' = "gptFailed")]_vars

\* a cycle that the token limit ended
C5_CycleEndedByFailure ==
  mainPc = "crashed" /\ fault = "gptFailed" /\ LastMessage.role = "function"

----------------------------------------------------------------------------
(* The claim about the first choice of a 2xx response *)

\* the first choice of each body that has one, parsed once
FirstChoices ==
  [b \in {x \in Bodies : /\ JsonParse(x).ok
                         /\ IsObject(JsonParse(x).val)
                         /\ Get(JsonParse(x).val, T_choices).t = "array"
                         /\ Get(JsonParse(x).val, T_choices).kids # <<>>}
     |-> Get(JsonParse(b).val, T_choices).kids[1]]

\* the message of a choice is the assistant's
AssistantShape(message) ==
  IsObject(message) /\ Get(message, T_role) = JStr(T_assistant)

\* a function_call with a string name and string arguments
ToolCallShape(call) ==
  IsObject(call) /\ IsString(Get(call, T_name)) /\ IsString(Get(call, T_arguments))

\* what C6 says callGptApi yields for a choice, given its finish_reason, its
\* message, the content and the function_call of the message
YieldsAsClaimed(result, reason, message, content, call) ==
  IF reason = JStr(T_length)
  THEN result.kind = "failure" /\ result.error = "exceededTokenLimit"
  ELSE IF /\ reason = JStr(T_stop)
          /\ AssistantShape(message)
          /\ IsString(content)
          /\ call.t = "undefined"
  THEN /\ result.kind = "success"
       /\ result.newMessage = AssistantMessage(content.s, NoCall)
  ELSE IF /\ reason = JStr(T_function_call)
          /\ AssistantShape(message)
          /\ (IsString(content) \/ content.t = "null")
          /\ ToolCallShape(call)
  THEN /\ result.kind = "success"
       /\ result.newMessage.role = "assistant"
       /\ result.newMessage.function_call =
            FunctionCall(Get(call, T_name).s, Get(call, T_arguments).s)
  ELSE result.kind = "raised"

ChoiceYieldsAsClaimed(result, choice) ==
  IF ~IsObject(choice) THEN result.kind = "raised"
  ELSE /\ YieldsAsClaimed(result,
            Get(choice, T_finish_reason),
            Get(choice, T_message),
            Get(Get(choice, T_message), T_content),
            Get(Get(choice, T_message), T_function_call))
       /\ result.kind = "success"
            => (result.newMessage.function_call.present
                  <=> Get(choice, T_finish_reason) = JStr(T_function_call))

\* C6: for the first choice of a 2xx response callGptApi yields Failure for
\* finish_reason "length", Success without ToolCall for "stop" with an assistant
\* message of string content and no function_call, Success with the ToolCall for
\* "function_call" with an assistant message whose function_call has a string
\* name and arguments, and raises for every other finish_reason and shape; a
\* Success entry carries a ToolCall iff finish_reason was "function_call".
C6_FirstChoiceOutcome ==
  (mainPc = "api" /\ apiResult.kind # "none" /\ apiBody \in DOMAIN FirstChoices)
    => ChoiceYieldsAsClaimed(apiResult, FirstChoices[apiBody])

\* a response with finish_reason "function_call" has become a Success entry
\* that carries the call
C6_ToolCallYielded ==
  /\ mainPc = "api"
  /\ apiBody \in DOMAIN FirstChoices
  /\ apiResult.kind = "success"
  /\ apiResult.newMessage.function_call.present

----------------------------------------------------------------------------
(* The claims about the history and the dispatch *)

IsPrefix(a, b) ==
  Len(a) <= Len(b) /\ SubSeq(b, 1, Len(a)) = a

\* C7: in every state of a request cycle the first entry of the history is the
\* System entry, and every step of the cycle leaves the history as it was or
\* appends exactly one entry to it.
C7_SystemFirstAndAppendOnly ==
  /\ [](cycle > 0 => messages[1].role = "system")
  /\ [][cycle' = cycle
          => /\ IsPrefix(messages, messages')
             /\ Len(messages') <= Len(messages) + 1]_vars

\* a history that has grown by a function result, the model's message and a
\* second function result
C7_HistoryGrown ==
  /\ mainPc = "loop"
  /\ Len(messages) = 6
  /\ messages[1].role = "system"
  /\ messages[6].role = "function"

\* C8: when the arguments of a call for a known tool do not parse or do not
\* satisfy the schema of the tool, handleFunctionCall does not raise and runs no
\* execute function (the disk is as before, no file, shell or network is
\* touched); the loop appends a function entry with <error parsing arguments>
\* and goes on to the next model call.
C8_BadArgumentsAreFedBack ==
  [][(/\ DispatchEnabled
      /\ LastMessage.function_call.name \in Registry(variant)
      /\ ~ArgumentsAccepted(LastMessage.function_call))
       => /\ mainPc' = "loop"
          /\ fault' = fault
          /\ fs' = fs
          /\ lastExec' = NoExec
          /\ messages' = Append(messages,
               FunctionMessage(LastMessage.function_call.name, ERROR_PARSING_ARGUMENTS))
          /\ LoopBranch(variant, messages'[Len(messages')]) = "callModel"]_vars

\* the error text has been appended for a call of the model
C8_ErrorTextAppended ==
  /\ mainPc = "loop"
  /\ Len(messages) = 6
  /\ LastMessage = FunctionMessage(messages[5].function_call.name, ERROR_PARSING_ARGUMENTS)
  /\ lastExec = NoExec

\* C9: when a call names a tool that is not in the registry, handleFunctionCall
\* raises, whether or not the arguments are well-formed; no tool is executed and
\* nothing is appended to the history.
C9_UnknownToolIsFatal ==
  [][(DispatchEnabled /\ LastMessage.function_call.name \notin Registry(variant))
       => /\ mainPc' = "crashed"
          /\ fault' = "functionNotFound"
          /\ fs' = fs
          /\ lastExec' = NoExec
          /\ messages' = messages]_vars

\* an unknown tool called with arguments that do not parse has raised
C9_UnknownToolRaised ==
  /\ mainPc = "crashed"
  /\ fault = "functionNotFound"
  /\ LastMessage.function_call.name = BOGUS
  /\ LastMessage.function_call.arguments = ARGS_TRUNCATED

----------------------------------------------------------------------------
(* The claim about safePathJoin *)

\* path is the directory base or lies below it
Within(base, path) ==
  LET dir == IF Len(base) > 1 /\ base[Len(base)] = SLASH
             THEN SubSeq(base, 1, Len(base) - 1)
             ELSE base
  IN  path = dir \/ StartsWith(path, dir \o <<SLASH>>)

\* C10: read_file and write_file hand the file system only a path that lies
\* within the code directory: for a target that resolves outside of it
\* safePathJoin throws before any access.
C10_FileAccessStaysWithinBase ==
  lastExec.fsTouched => Within(codePath, lastExec.path)

----------------------------------------------------------------------------
(* parseGptJson on its own: the texts it is called with, preprocessGptJson,
   then JSON.parse and parsedJsonSchema *)

MaxTextLen == 4

TextAlphabet == {QUOTE, BS, NL, CR, "a"}

\* every text of at most MaxTextLen characters
ShortTexts == UNION { [1..n -> TextAlphabet] : n \in 0..MaxTextLen }

\* what stands between the quotes of a string, as the model writes it
StringBodies ==
  { <<"a">>, <<BS, BS>>, <<NL>>, <<CR>>, <<"a", NL, "b">>, <<BS, QUOTE>>,
    <<BS, "n">>, <<BS, BS, NL>> }

\* arrays of two strings, written on one line or on two
ArrayTexts ==
  { <<"[", QUOTE>> \o a \o <<QUOTE, ",">> \o sep \o <<QUOTE>> \o b \o <<QUOTE, "]">> :
      a \in StringBodies, b \in StringBodies, sep \in {<<>>, <<NL>>} }

JsonStrings ==
  ShortTexts \cup ArrayTexts \cup { call.arguments : call \in ToolCalls }

InitParseGptJson ==
  /\ variant = "firebuild"
  /\ codePath \in CodePaths
  /\ mainPc = "loop"
  /\ cycle = 1
  /\ messages = InitialMessages(HI)
  /\ fs = BaseDisk
  /\ lastExec = NoExec
  /\ fault = "none"
  /\ ApiIdle
  /\ utilPc = "called"
  /\ gptJson \in JsonStrings
  /\ preprocessedString = <<>>
  /\ parsedJson = [ok |-> FALSE, val |-> JUndefined]

\* parseGptJson: const preprocessedString = preprocessGptJson(jsonString)
Preprocess ==
  /\ utilPc = "called"
  /\ preprocessedString' = preprocessGptJson(gptJson)
  /\ utilPc' = "preprocessed"
  /\ UNCHANGED <<variant, codePath, mainPc, cycle, messages, fs, lastExec, fault,
                 apiVars, gptJson, parsedJson>>

\* parseGptJson: return parsedJsonSchema.parse(JSON.parse(preprocessedString))
Parse ==
  /\ utilPc = "preprocessed"
  /\ parsedJson' = parseGptJson(gptJson)
  /\ utilPc' = "returned"
  /\ UNCHANGED <<variant, codePath, mainPc, cycle, messages, fs, lastExec, fault,
                 apiVars, gptJson, preprocessedString>>

NextParseGptJson ==
  \/ Preprocess
  \/ Parse

SpecParseGptJson == InitParseGptJson /\ [][NextParseGptJson]_vars

----------------------------------------------------------------------------
(* The claims about the sanitizer *)

\* JSON lexing: after the characters 1..i of s the lexer is inside a string;
\* a quote inside a string closes it unless an odd number of backslashes
\* stands right before it
RECURSIVE InsideAfter(_, _)
InsideAfter(s, i) ==
  IF i = 0 THEN FALSE
  ELSE IF s[i] = QUOTE /\ (~InsideAfter(s, i - 1) \/ ~Escaped(s, i))
  THEN ~InsideAfter(s, i - 1)
  ELSE InsideAfter(s, i - 1)

\* the character at i stands between the quotes of a string literal
InLiteral(s, i) == InsideAfter(s, i - 1) /\ InsideAfter(s, i)

RawBreaks(s) == { i \in 1..Len(s) : s[i] \in {NL, CR} /\ InLiteral(s, i) }

\* the characters of s that stand outside its string literals, in order
OutsideText(s) ==
  LET outside == { i \in 1..Len(s) : ~InLiteral(s, i) }
  IN  [k \in 1..Cardinality(outside) |->
         s[CHOOSE i \in outside : Cardinality({ j \in outside : j <= i }) = k]]

\* C11: a text with no raw newline or carriage return inside a string literal
\* comes back from preprocessGptJson unchanged, and the characters outside
\* the string literals of any text come back unchanged.
C11_TextOutsideStringsIsKept ==
  utilPc \in {"preprocessed", "returned"} =>
    /\ RawBreaks(gptJson) = {} => preprocessedString = gptJson
    /\ OutsideText(preprocessedString) = OutsideText(gptJson)

\* s with each raw line break of a string literal written as backslash n
RECURSIVE BreaksEscapedFrom(_, _)
BreaksEscapedFrom(s, i) ==
  IF i > Len(s) THEN <<>>
  ELSE (IF i \in RawBreaks(s) THEN <<BS, "n">> ELSE <<s[i]>>)
       \o BreaksEscapedFrom(s, i + 1)

BreaksEscaped(s) == BreaksEscapedFrom(s, 1)

\* a JSON text but for the raw line breaks that some of its strings hold
JsonWithRawBreaks(s) == RawBreaks(s) # {} /\ JsonParse(BreaksEscaped(s)).ok

\* C12: in a JSON text whose strings hold raw newlines or carriage returns,
\* preprocessGptJson writes each of them as backslash n and keeps the other
\* characters in order, and the parse of the result gives the strings with a
\* newline at each such place.
C12_RawBreaksBecomeNewlines ==
  JsonWithRawBreaks(gptJson) =>
    /\ utilPc \in {"preprocessed", "returned"} =>
         preprocessedString = BreaksEscaped(gptJson)
    /\ utilPc = "returned" =>
         /\ parsedJson.ok
         /\ parsedJson.val = JsonParse(BreaksEscaped(gptJson)).val

----------------------------------------------------------------------------
(* The claims about the history and the start of a request cycle *)

\* C13: callGptApi leaves the history of its caller as it was, whether it
\* returns a new message, returns the failure or throws; when it returns a
\* new message, the messages it returns are the history followed by that one
\* assistant message.
C13_HistoryIsNotMutated ==
  /\ [][mainPc = "api" /\ mainPc' = "api" => messages' = messages]_vars
  /\ [](mainPc = "api" /\ apiResult.kind = "success" =>
          /\ apiResult.newMessage.role = "assistant"
          /\ apiResult.messages = Append(messages, apiResult.newMessage))

C13_NewMessageReturned ==
  /\ mainPc = "api"
  /\ apiResult.kind = "success"
  /\ Len(apiResult.messages) = Len(messages) + 1

\* C14: a request cycle starts with the system message, the request of the
\* user and an assistant message calling list_files with arguments {}; the
\* loop first dispatches that call, and callGptApi runs only once the result
\* of list_files stands as the fourth message.
C14_CycleStartsWithListing ==
  /\ [][cycle' # cycle =>
          /\ mainPc' = "loop"
          /\ Len(messages') = 3
          /\ messages'[1].role = "system"
          /\ messages'[2].role = "user"
          /\ messages'[2].content \in Requests(variant)
          /\ messages'[3].role = "assistant"
          /\ messages'[3].function_call = FunctionCall(T_list_files, EMPTY_OBJECT)]_vars
  /\ [](mainPc = "loop" /\ Len(messages) = 3 =>
          LoopBranch(variant, LastMessage) = "dispatch")
  /\ [](mainPc = "api" =>
          /\ Len(messages) >= 4
          /\ messages[4] \in { FunctionMessage(T_list_files, out) :
                                 out \in {messages[4].content} })

C14_ModelCalledAfterListing ==
  /\ mainPc = "api"
  /\ Len(messages) = 4
  /\ messages[4].role = "function"

----------------------------------------------------------------------------
(* callGptApi on its own: called with the history its caller hands it *)

\* an entry no member of the messageSchema union accepts
InvalidMessage ==
  [role |-> "tool", content |-> HI, name |-> <<>>, function_call |-> NoCall]

\* the histories of the callers: the two messages of the test script, the
\* history of handleUserRequest after list_files, and one with an entry
\* that fails messageSchema
CallerHistories ==
  { << SystemMessage(SYSTEM_PROMPT), UserMessage(HI) >>,
    Append(InitialMessages(HI), FunctionMessage(T_list_files, <<>>)),
    << SystemMessage(SYSTEM_PROMPT), InvalidMessage >> }

InitCallGptApi ==
  /\ variant = "firebuild"
  /\ codePath \in CodePaths
  /\ mainPc = "api"
  /\ cycle = 1
  /\ messages \in CallerHistories
  /\ fs = BaseDisk
  /\ lastExec = NoExec
  /\ fault = "none"
  /\ triesLeft = totalTries
  /\ attempts = 0
  /\ sleeps = <<>>
  /\ lastStatus = 0
  /\ lastBodyRead = FALSE
  /\ apiBody = <<>>
  /\ apiResult = NoResult
  /\ UtilIdle

NextCallGptApi ==
  \/ ApiAttempt
  \/ ApiReturn

SpecCallGptApi == InitCallGptApi /\ [][NextCallGptApi]_vars

----------------------------------------------------------------------------
(* The claims about the faults of callGptApi *)

HistoryValid == \A i \in 1..Len(messages) : messageSchema(messages[i])

\* C15: only a rejected fetch or a status outside 200..299 and 400..499 is
\* retried; when an entry of the history fails the message schema while the
\* request body is built, callGptApi throws at once: no fetch, no sleep, no
\* second pass of the loop.
C15_BuildFaultIsNotRetried ==
  /\ [][mainPc = "api" /\ ~HistoryValid =>
          /\ apiResult'.kind = "raised" \/ mainPc' # "api"
          /\ sleeps' \in {sleeps, <<>>}
          /\ attempts' = 0]_vars
  /\ [][mainPc = "api" /\ mainPc' = "api" /\ Len(sleeps') > Len(sleeps) =>
          \/ lastStatus' = 0
          \/ ~Ok(lastStatus') /\ ~(lastStatus' >= 400 /\ lastStatus' < 500)]_vars

\* C16: a response with status 429 is retried with backoff as a status 500
\* is, and callGptApi throws for it only once no try is left.
C16_TooManyRequestsIsRetried ==
  mainPc = "api" /\ lastStatus = 429 =>
    IF apiResult.kind = "none"
    THEN Len(sleeps) = attempts
    ELSE apiResult.kind = "raised" /\ triesLeft = 0

\* C16, amended: a response with status 429 whose body has been read makes
\* callGptApi throw at once, as every status of 400..499 does: no sleep and no
\* further fetch, whatever tries are left; it is retried with backoff only
\* when reading its body fails.
C16_TooManyRequestsIsClientFault ==
  mainPc = "api" /\ lastStatus = 429 =>
    IF lastBodyRead
    THEN /\ apiResult.kind = "raised"
         /\ apiResult.error = "responseNotOk"
         /\ Len(sleeps) = attempts - 1
    ELSE IF apiResult.kind = "none"
    THEN Len(sleeps) = attempts
    ELSE apiResult.kind = "raised" /\ triesLeft = 0

C16_TooManyRequestsRaisedWithTriesLeft ==
  /\ mainPc = "api"
  /\ lastStatus = 429
  /\ lastBodyRead
  /\ apiResult.kind = "raised"
  /\ triesLeft = totalTries

\* C17: a fault thrown inside a request cycle ends that cycle only: main is
\* still running afterwards and asks the user for the next request, with the
\* same context.
C17_FaultEndsOnlyTheCycle ==
  /\ [](fault # "none" => mainPc = "ask")
  /\ [][fault' # "none" => codePath' = codePath /\ mainPc' = "ask"]_vars

\* the waits follow the failed attempts one for one and grow by 1000 ms
WaitsAreLinear ==
  /\ \A k \in 1..Len(sleeps) : sleeps[k] = 1000 * k
  /\ Len(sleeps) = IF apiResult.kind = "none" THEN attempts ELSE attempts - 1

\* C18: the wait before the k-th retry is 1000 * k ms: none before the first
\* attempt, each one 1000 ms longer than the one before, none after the last
\* failed attempt and none after a fault that is not retryable.
C18_BackoffIsLinear ==
  mainPc = "api" /\ attempts > 0 =>
    /\ WaitsAreLinear
    /\ lastStatus >= 400 /\ lastStatus < 500 => Len(sleeps) = attempts - 1

\* the body of the ok response cannot be read or is not JSON, has no choices
\* array or an empty one, or its first choice has no known finish_reason
ParseFault ==
  IF ~lastBodyRead \/ apiBody \notin DOMAIN FirstChoices THEN TRUE
  ELSE \/ ~IsObject(FirstChoices[apiBody])
       \/ Get(FirstChoices[apiBody], T_finish_reason)
            \notin {JStr(T_length), JStr(T_stop), JStr(T_function_call)}

\* C19: the first response with a status of 200..299 ends the retry loop:
\* callGptApi makes no further fetch and no sleep after it, and a body that
\* is not JSON, has no choice or has an unexpected finish_reason makes it
\* throw, with tries left or not, instead of returning.
C19_OkResponseEndsTheLoop ==
  /\ [](mainPc = "api" /\ Ok(lastStatus) =>
          /\ apiResult.kind # "none"
          /\ Len(sleeps) = attempts - 1
          /\ ParseFault => apiResult.kind = "raised")
  /\ [][mainPc = "api" /\ Ok(lastStatus) => mainPc' # "api"]_vars

C19_ParseFaultRaisedWithTriesLeft ==
  /\ mainPc = "api"
  /\ Ok(lastStatus)
  /\ triesLeft = totalTries
  /\ apiResult.kind = "raised"
  /\ apiResult.error = "noResponse"

----------------------------------------------------------------------------
(* The claim about the name of a tool call *)

\* the first choice of the body is a "function_call" choice of the claimed
\* shape whose name is the empty text
EmptyNameChoice(choice) ==
  /\ IsObject(choice)
  /\ Get(choice, T_finish_reason) = JStr(T_function_call)
  /\ AssistantShape(Get(choice, T_message))
  /\ Get(Get(choice, T_message), T_content).t \in {"string", "null"}
  /\ ToolCallShape(Get(Get(choice, T_message), T_function_call))
  /\ Get(Get(Get(choice, T_message), T_function_call), T_name).s = <<>>

\* C20: callGptApi returns a new message with a function_call only when the
\* name of the call is not the empty text: with an empty name it throws, and
\* no assistant message with such a call reaches the history.
C20_ToolCallNameIsNotEmpty ==
  /\ (mainPc = "api" /\ apiResult.kind = "success"
        /\ apiResult.newMessage.function_call.present)
       => apiResult.newMessage.function_call.name # <<>>
  /\ \A i \in 1..Len(messages) :
       messages[i].function_call.present => messages[i].function_call.name # <<>>

\* C20, amended: callGptApi returns a new message with the function_call
\* whenever name and arguments are strings, the empty name included; the loop
\* appends that message, and its dispatch throws as for any unknown tool.
C20_EmptyNameIsYieldedThenFatal ==
  /\ []((mainPc = "api" /\ apiResult.kind # "none"
          /\ apiBody \in DOMAIN FirstChoices)
         => (EmptyNameChoice(FirstChoices[apiBody])
               => /\ apiResult.kind = "success"
                  /\ apiResult.newMessage.role = "assistant"
                  /\ apiResult.newMessage.function_call.present
                  /\ apiResult.newMessage.function_call.name = <<>>))
  /\ [][(mainPc = "api" /\ apiResult.kind = "success"
          /\ apiResult.newMessage.function_call.present
          /\ apiResult.newMessage.function_call.name = <<>>)
         => messages' = Append(messages, apiResult.newMessage)]_vars
  /\ [][(DispatchEnabled /\ LastMessage.function_call.name = <<>>)
         => /\ mainPc' = "crashed"
            /\ fault' = "functionNotFound"
            /\ messages' = messages]_vars

C20_EmptyNameDispatched ==
  /\ mainPc = "crashed"
  /\ fault = "functionNotFound"
  /\ LastMessage.function_call.present
  /\ LastMessage.function_call.name = <<>>

----------------------------------------------------------------------------
(* The claim about the sanitizer and the response body *)

\* the bodies that are not JSON as they stand and are JSON once
\* preprocessGptJson has rewritten their raw line breaks
RawBreakBodies ==
  { b \in Bodies : ~JsonParse(b).ok /\ JsonParse(preprocessGptJson(b)).ok }

\* what the parse of the sanitized body comes to, for each such body
SanitizedOutcomes ==
  [b \in RawBreakBodies |-> ParseResponse(TRUE, preprocessGptJson(b))]

\* an ok response whose body was read and is such a body
RawBreakBodyReceived ==
  /\ mainPc = "api"
  /\ Ok(lastStatus)
  /\ lastBodyRead
  /\ apiBody \in DOMAIN SanitizedOutcomes

----------------------------------------------------------------------------
(* The claims about the steps of the loop *)

\* the entries 1..n of the history that carry a function_call
CallsUpTo(n) == { i \in 1..n : messages[i].function_call.present }

\* C22: in the interactive driver the last message alone decides the step of
\* the loop: an assistant message with a function_call is dispatched, one
\* without makes the loop ask the user and append the answer as a user
\* message, a user or function message makes it call the model once.  So the
\* model is not called while a call is pending or an assistant message is the
\* last one, each call of the history is dispatched once, and the error
\* "unreachable" is never thrown.
C22_LastMessageDecidesTheStep ==
  /\ [][(variant = "firebuild" /\ mainPc = "loop") =>
          IF LastMessage.role = "assistant" /\ LastMessage.function_call.present
          THEN /\ UNCHANGED apiVars
               /\ \/ /\ mainPc' \in {"ask", "crashed"}
                     /\ messages' = messages
                  \/ /\ mainPc' = "loop"
                     /\ Len(messages') = Len(messages) + 1
                     /\ messages'[Len(messages')].role = "function"
                     /\ messages'[Len(messages')].name = LastMessage.function_call.name
          ELSE IF LastMessage.role = "assistant"
          THEN /\ mainPc' = "loop"
               /\ Len(messages') = Len(messages) + 1
               /\ messages'[Len(messages')].role = "user"
               /\ UNCHANGED <<apiVars, fs, lastExec>>
          ELSE /\ LastMessage.role \in {"user", "function"}
               /\ mainPc' = "api"
               /\ attempts' = 0
               /\ UNCHANGED <<messages, fs, lastExec>>]_vars
  /\ []((variant = "firebuild" /\ mainPc = "api") =>
          LastMessage.role \in {"user", "function"})
  /\ [](variant = "firebuild" => fault # "unreachable")
  /\ [](variant = "firebuild" /\ cycle > 0 =>
          \A i \in CallsUpTo(Len(messages) - 1) : messages[i + 1].role = "function")

C22_UserAnsweredAssistant ==
  /\ variant = "firebuild"
  /\ mainPc = "loop"
  /\ Len(messages) > 5
  /\ messages[Len(messages) - 1].role = "assistant"
  /\ LastMessage.role = "user"

\* C23: in every history a function message stands right after an assistant
\* message with a function_call and carries the name of that call, and an
\* assistant message with a function_call that is not the last message is
\* followed by its function message.
C23_ResultFollowsItsCall ==
  /\ \A i \in 1..Len(messages) :
       messages[i].role = "function" =>
         /\ i > 1
         /\ messages[i - 1].role = "assistant"
         /\ messages[i - 1].function_call.present
         /\ messages[i].name = messages[i - 1].function_call.name
  /\ \A i \in 1..(Len(messages) - 1) :
       (messages[i].role = "assistant" /\ messages[i].function_call.present) =>
         /\ messages[i + 1].role = "function"
         /\ messages[i + 1].name = messages[i].function_call.name

C23_SecondResultAppended ==
  /\ Len(messages) = 6
  /\ messages[4].role = "function"
  /\ messages[5].function_call.name = T_read_file
  /\ messages[6].role = "function"

\* C24: in cli.ts, once the model has returned an assistant message without
\* function_call the model is not called again before a user message is
\* appended, so no two assistant messages stand next to each other.
C24_CliWaitsForTheUser ==
  variant = "cli" /\ cycle > 0 =>
    /\ mainPc = "api" => LastMessage.role # "assistant"
    /\ \A i \in 1..(Len(messages) - 1) :
         ~(messages[i].role = "assistant" /\ messages[i + 1].role = "assistant")

\* C24, amended: in cli.ts the loop calls the model again right after an
\* assistant message without function_call; the user is asked for the request
\* of the cycle only, so no user message is appended after the second message
\* and assistant messages can stand next to each other.
C24_CliCallsTheModelAgain ==
  /\ [][(variant = "cli" /\ mainPc = "loop"
          /\ LastMessage.role = "assistant" /\ ~LastMessage.function_call.present)
         => /\ mainPc' = "api"
            /\ messages' = messages]_vars
  /\ [](variant = "cli" =>
          \A i \in 3..Len(messages) : messages[i].role # "user")

C24_TwoAssistantMessagesInARow ==
  /\ variant = "cli"
  /\ Len(messages) = 6
  /\ messages[5].role = "assistant"
  /\ ~messages[5].function_call.present
  /\ messages[6].role = "assistant"

----------------------------------------------------------------------------
(* The claim about the confirmation of run *)

\* the function messages of the history
Results == { i \in 1..Len(messages) : messages[i].role = "function" }

\* the latest function message
LastResult == messages[CHOOSE i \in Results : \A j \in Results : j <= i]

\* C25: run executes the command only after the user has answered yes to its
\* question; on any other answer it returns <user canceled request> without
\* executing anything, and the loop appends that text as the result of the
\* call and goes on with the cycle.
C25_RunNeedsConfirmation ==
  lastExec.tool = T_run =>
    /\ lastExec.shellRan => StartsWith(ToLowerCase(lastExec.answer), <<"y">>)
    /\ ~StartsWith(ToLowerCase(lastExec.answer), <<"y">>) => ~lastExec.shellRan
    /\ ~lastExec.shellRan =>
         /\ ~lastExec.fsTouched
         /\ ~lastExec.httpSent
         /\ Results # {}
         /\ LastResult = FunctionMessage(T_run, USER_CANCELED)
         /\ mainPc # "ask"
         /\ fault \notin {"exec", "functionNotFound", "upwardTraversal", "fs"}

C25_RunCanceled ==
  /\ lastExec.tool = T_run
  /\ lastExec.answer = <<"n">>
  /\ ~lastExec.shellRan
  /\ mainPc = "loop"
  /\ LastMessage = FunctionMessage(T_run, USER_CANCELED)

====
